---- MODULE Spec2Model ----
(***************************************************************************)
(* protoc-gen-sphere-errors.                                               *)
(*                                                                         *)
(* Part 1 models main.go: the flags, the protogen callback that walks      *)
(* gen.Files, validates new_errors_func and calls errors.GenerateFile.     *)
(* unnamed/part_000 is the same program without the new_errors_func flag;  *)
(* both are run, told apart by the variable program.                       *)
(* Part 2 models the code the plugin generates for one enum (the four      *)
(* accessors, Join and JoinWithMessage) as documented in README.md.        *)
(***************************************************************************)
EXTENDS Integers, Sequences, FiniteSets, TLC

VARIABLES
    program,        \* which main() runs: "main.go" or "unnamed/part_000"
    pc,             \* position of main(): "start", "parsed", "params", "loop", "done", "exit"
    showVersion,    \* *showVersion
    newErrorsFunc,  \* *newErrorsFunc, a text given as a sequence of chunks
    files,          \* gen.Files
    idx,            \* position of the range loop over gen.Files (1-based)
    calls,          \* the invocations of errors.GenerateFile made so far
    result,         \* what the callback returned
    gpc,            \* position of the generated-code scenario: "idle", "proto", "ready", "called"
    enum,           \* the enum declaration the code is generated from
    code,           \* the generated accessors of that enum
    op,             \* the last call made on a value of the generated type
    invoked         \* the invocations of the construction function made by op

vars == <<program, pc, showVersion, newErrorsFunc, files, idx, calls, result,
          gpc, enum, code, op, invoked>>

runVars == <<program, pc, showVersion, newErrorsFunc, files, idx, calls, result>>
genVars == <<gpc, enum, code, op, invoked>>

(***************************************************************************)
(* Bounds                                                                  *)
(***************************************************************************)
MaxFiles == 3       \* longest gen.Files explored
MaxDescLen == 3     \* longest new_errors_func parameter explored, in chunks

(***************************************************************************)
(* Texts.  A text is a sequence of chunks; a chunk is either the separator *)
(* ";" or a string that holds no ";".  Text(s) is the Go string it spells. *)
(***************************************************************************)
Sep == ";"

Chunks == {"p", "n", Sep}

RECURSIVE Text(_)
Text(s) == IF s = <<>> THEN "" ELSE Head(s) \o Text(Tail(s))

RECURSIVE SeqsUpTo(_, _)
SeqsUpTo(S, n) ==
    IF n = 0 THEN {<<>>}
    ELSE LET shorter == SeqsUpTo(S, n - 1)
         IN  shorter \cup {Append(s, x) : s \in shorter, x \in S}

Descriptors == SeqsUpTo(Chunks, MaxDescLen)

(***************************************************************************)
(* main.go                                                                 *)
(***************************************************************************)
defaultErrorsPackage == "github.com/go-sphere/httpx"

defaultNewErrorsFunc == <<defaultErrorsPackage>> \o <<Sep, "NewError">>

invalidFormat == "invalid new_errors_func format, expected 'path;ident'"

\* strings.Index(s, ";"), 1-based; 0 when s holds no separator
Index(s) ==
    IF \E i \in 1..Len(s) : s[i] = Sep
    THEN CHOOSE i \in 1..Len(s) : s[i] = Sep /\ \A j \in 1..(i - 1) : s[j] # Sep
    ELSE 0

\* strings.Split(s, ";"): cut at every separator, keep the empty pieces
RECURSIVE Split(_)
Split(s) ==
    LET m == Index(s)
    IN  IF m = 0 THEN <<Text(s)>>
        ELSE <<Text(SubSeq(s, 1, m - 1))>> \o Split(SubSeq(s, m + 1, Len(s)))

\* Config with the two components taken in the wrong order
Config_Swapped(errPkg) ==
    [NewErrorsFunc |-> [GoName |-> errPkg[1], GoImportPath |-> errPkg[2]]]

\* &errors.Config{NewErrorsFunc: protogen.GoIdent{GoName: errPkg[1], GoImportPath: errPkg[0]}}
Config(errPkg) ==
    [NewErrorsFunc |-> [GoName |-> errPkg[2], GoImportPath |-> errPkg[1]]]

\* the error errors.GenerateFile returns for the i-th file when it fails
GErr(i) == [err |-> "gErr", file |-> i]

Nil == [err |-> "nil"]

File == [Generate : BOOLEAN, fails : BOOLEAN]

FileLists == SeqsUpTo(File, MaxFiles)

NoEnum == [name |-> "", default_status |-> 0, values |-> <<>>]
NoCode == [Error |-> <<>>]
NoOp == [name |-> "none"]

Programs == {"main.go", "unnamed/part_000"}

\* errors.GenerateFile(gen, f) takes no configuration in unnamed/part_000
NoConfig == <<>>

Init ==
    /\ program \in Programs
    /\ pc = "start"
    /\ showVersion = FALSE
    /\ newErrorsFunc = defaultNewErrorsFunc
    /\ files = <<>>
    /\ idx = 0
    /\ calls = <<>>
    /\ result = [err |-> "none"]
    /\ gpc = "idle"
    /\ enum = NoEnum
    /\ code = NoCode
    /\ op = NoOp
    /\ invoked = <<>>

\* flag.Parse(): the command line may set either flag
FlagParse ==
    /\ program = "main.go"
    /\ pc = "start"
    /\ showVersion' \in BOOLEAN
    /\ newErrorsFunc' \in {newErrorsFunc} \cup Descriptors
    /\ pc' = "parsed"
    /\ UNCHANGED <<program, files, idx, calls, result, genVars>>

\* flag.Parse() of unnamed/part_000: version is the only flag
FlagParseVersionOnly ==
    /\ program = "unnamed/part_000"
    /\ pc = "start"
    /\ showVersion' \in BOOLEAN
    /\ pc' = "parsed"
    /\ UNCHANGED <<program, newErrorsFunc, files, idx, calls, result, genVars>>

\* if *showVersion { ...; return }
PrintVersion ==
    /\ pc = "parsed"
    /\ showVersion
    /\ pc' = "exit"
    /\ UNCHANGED <<program, showVersion, newErrorsFunc, files, idx, calls, result, genVars>>

\* protogen.Options{...}.Run: the request is read and its parameters are applied
Run ==
    /\ pc = "parsed"
    /\ ~showVersion
    /\ pc' = "params"
    /\ UNCHANGED <<program, showVersion, newErrorsFunc, files, idx, calls, result, genVars>>

\* ParamFunc: flag.CommandLine.Set, for a new_errors_func=... parameter
ParamNewErrorsFunc ==
    /\ program = "main.go"
    /\ pc = "params"
    /\ newErrorsFunc' \in Descriptors
    /\ UNCHANGED <<program, pc, showVersion, files, idx, calls, result, genVars>>

\* ParamFunc: flag.CommandLine.Set, for a version=... parameter
ParamVersion ==
    /\ pc = "params"
    /\ showVersion' \in BOOLEAN
    /\ UNCHANGED <<program, pc, newErrorsFunc, files, idx, calls, result, genVars>>

\* the callback is entered with the plugin's files
Callback ==
    /\ pc = "params"
    /\ files' \in FileLists
    /\ idx' = 1
    /\ pc' = "loop"
    /\ UNCHANGED <<program, showVersion, newErrorsFunc, calls, result, genVars>>

\* LoopSkip that passes over a file whether or not it is marked
LoopSkip_AnyFile ==
    /\ pc = "loop"
    /\ idx <= Len(files)
    /\ idx' = idx + 1
    /\ UNCHANGED <<program, pc, showVersion, newErrorsFunc, files, calls, result, genVars>>

\* if !f.Generate { continue }
LoopSkip ==
    /\ pc = "loop"
    /\ idx <= Len(files)
    /\ ~files[idx].Generate
    /\ idx' = idx + 1
    /\ UNCHANGED <<program, pc, showVersion, newErrorsFunc, files, calls, result, genVars>>

\* if len(errPkg) != 2 { return fmt.Errorf(...) }
LoopInvalidFormat ==
    /\ program = "main.go"
    /\ pc = "loop"
    /\ idx <= Len(files)
    /\ files[idx].Generate
    /\ Len(Split(newErrorsFunc)) # 2
    /\ result' = [err |-> invalidFormat]
    /\ pc' = "done"
    /\ UNCHANGED <<program, showVersion, newErrorsFunc, files, idx, calls, genVars>>

\* LoopGenerateFile that drops gErr and goes on to the next file
LoopGenerateFile_DropsError ==
    /\ program = "main.go"
    /\ pc = "loop"
    /\ idx <= Len(files)
    /\ files[idx].Generate
    /\ LET errPkg == Split(newErrorsFunc)
           gErr == IF files[idx].fails THEN GErr(idx) ELSE Nil
       IN  /\ Len(errPkg) = 2
           /\ calls' = Append(calls, [file |-> idx, conf |-> Config(errPkg), gErr |-> gErr])
           /\ idx' = idx + 1
    /\ UNCHANGED <<program, pc, result, showVersion, newErrorsFunc, files, genVars>>

\* _, gErr := errors.GenerateFile(gen, f, &errors.Config{...}); if gErr != nil { return gErr }
LoopGenerateFile ==
    /\ program = "main.go"
    /\ pc = "loop"
    /\ idx <= Len(files)
    /\ files[idx].Generate
    /\ LET errPkg == Split(newErrorsFunc)
           gErr == IF files[idx].fails THEN GErr(idx) ELSE Nil
       IN  /\ Len(errPkg) = 2
           /\ calls' = Append(calls, [file |-> idx, conf |-> Config(errPkg), gErr |-> gErr])
           /\ IF gErr # Nil
              THEN /\ result' = gErr
                   /\ pc' = "done"
                   /\ idx' = idx
              ELSE /\ idx' = idx + 1
                   /\ UNCHANGED <<pc, result>>
    /\ UNCHANGED <<program, showVersion, newErrorsFunc, files, genVars>>

\* unnamed/part_000: _, gErr := errors.GenerateFile(gen, f); if gErr != nil { return gErr }
LoopGenerateFileNoConfig ==
    /\ program = "unnamed/part_000"
    /\ pc = "loop"
    /\ idx <= Len(files)
    /\ files[idx].Generate
    /\ LET gErr == IF files[idx].fails THEN GErr(idx) ELSE Nil
       IN  /\ calls' = Append(calls, [file |-> idx, conf |-> NoConfig, gErr |-> gErr])
           /\ IF gErr # Nil
              THEN /\ result' = gErr
                   /\ pc' = "done"
                   /\ idx' = idx
              ELSE /\ idx' = idx + 1
                   /\ UNCHANGED <<pc, result>>
    /\ UNCHANGED <<program, showVersion, newErrorsFunc, files, genVars>>

\* the range loop is exhausted: return nil
LoopReturn ==
    /\ pc = "loop"
    /\ idx > Len(files)
    /\ result' = Nil
    /\ pc' = "done"
    /\ UNCHANGED <<program, showVersion, newErrorsFunc, files, idx, calls, genVars>>

Next ==
    \/ FlagParse
    \/ FlagParseVersionOnly
    \/ PrintVersion
    \/ Run
    \/ ParamNewErrorsFunc
    \/ ParamVersion
    \/ Callback
    \/ LoopSkip
    \/ LoopInvalidFormat
    \/ LoopGenerateFile
    \/ LoopGenerateFileNoConfig
    \/ LoopReturn

Spec == Init /\ [][Next]_vars

(***************************************************************************)
(* The enum declarations handed to the generator.  An option that may be   *)
(* absent is <<>> when absent and <<x>> when set to x.                     *)
(***************************************************************************)
MaxValues == 2      \* most values declared by an enumerated declaration
MaxErrs == 2        \* most errors handed to Join / JoinWithMessage

NoOptions == [status |-> <<>>, reason |-> <<>>, message |-> <<>>]

\* README.md, enum TestError
TestErrorProto ==
    [name |-> "TestError",
     default_status |-> <<500>>,
     values |-> <<
        [symbol |-> "TEST_ERROR_UNSPECIFIED", number |-> 0, options |-> NoOptions],
        [symbol |-> "TEST_ERROR_INVALID_FIELD_TEST1", number |-> 1000,
         options |-> [status |-> <<400>>, reason |-> <<"INVALID_ARGUMENT">>,
                      message |-> <<"Invalid field_test1 value">>]],
        [symbol |-> "TEST_ERROR_INVALID_PATH_TEST2", number |-> 1001,
         options |-> [status |-> <<400>>, reason |-> <<>>,
                      message |-> <<"Invalid path_test2 parameter">>]],
        [symbol |-> "TEST_ERROR_UNAUTHORIZED", number |-> 1002,
         options |-> [status |-> <<401>>, reason |-> <<"UNAUTHORIZED">>,
                      message |-> <<"Authentication required">>]],
        [symbol |-> "TEST_ERROR_FORBIDDEN", number |-> 1003,
         options |-> [status |-> <<403>>, reason |-> <<"FORBIDDEN">>,
                      message |-> <<"Permission denied">>]] >>]

\* README.md, enum UserError
UserErrorProto ==
    [name |-> "UserError",
     default_status |-> <<500>>,
     values |-> <<
        [symbol |-> "USER_ERROR_UNSPECIFIED", number |-> 0, options |-> NoOptions],
        [symbol |-> "USER_ERROR_NOT_FOUND", number |-> 2001,
         options |-> [status |-> <<404>>, reason |-> <<>>,
                      message |-> <<"User not found">>]],
        [symbol |-> "USER_ERROR_EMAIL_EXISTS", number |-> 2002,
         options |-> [status |-> <<409>>, reason |-> <<>>,
                      message |-> <<"Email already exists">>]] >>]

\* README.md, enum AuthError: a default status other than 500, values without options
AuthErrorProto ==
    [name |-> "AuthError",
     default_status |-> <<401>>,
     values |-> <<
        [symbol |-> "AUTH_ERROR_UNSPECIFIED", number |-> 0, options |-> NoOptions],
        [symbol |-> "AUTH_ERROR_INVALID_TOKEN", number |-> 1001, options |-> NoOptions],
        [symbol |-> "AUTH_ERROR_TOKEN_EXPIRED", number |-> 1002, options |-> NoOptions],
        [symbol |-> "AUTH_ERROR_INSUFFICIENT_PERMISSIONS", number |-> 1003,
         options |-> NoOptions] >>]

\* the numbers and symbols of the enumerated declarations
Numbers == {0, 1000}

SymbolOf(n) == IF n = 0 THEN "E_UNSPECIFIED" ELSE "E_INVALID"

Options ==
    [status : {<<>>, <<400>>},
     reason : {<<>>, <<"INVALID_ARGUMENT">>},
     message : {<<>>, <<"Invalid value">>}]

Value == {[symbol |-> SymbolOf(n), number |-> n, options |-> o] : n \in Numbers, o \in Options}

\* value numbers are unique within an enum
ValueLists ==
    {vs \in SeqsUpTo(Value, MaxValues) :
        \A i, j \in 1..Len(vs) : i # j => vs[i].number # vs[j].number}

EnumDecls ==
    {[name |-> "E", default_status |-> d, values |-> vs] :
        d \in {<<>>, <<503>>}, vs \in ValueLists}
    \cup {TestErrorProto, UserErrorProto, AuthErrorProto}

(***************************************************************************)
(* The generator: from a declaration to the four switches of its type.     *)
(* A switch is its cases in emitted order and its default branch.          *)
(***************************************************************************)
\* the enum's default status: the default_status option, 500 when it is absent
DefaultStatus(E) == IF E.default_status = <<>> THEN 500 ELSE E.default_status[1]

\* ResolveStatus that lets the enum's default_status win over the override
ResolveStatus_DefaultWins(E, v) ==
    IF E.default_status # <<>> THEN E.default_status[1]
    ELSE IF v.options.status # <<>> THEN v.options.status[1] ELSE 500

\* a value's status: its own override, else the enum's default
ResolveStatus(E, v) ==
    IF v.options.status # <<>> THEN v.options.status[1] ELSE DefaultStatus(E)

\* the Go constant generated for a value
GoConstant(E, v) == E.name \o "_" \o v.symbol

\* ResolveReason that falls back to the message before the constant's name
ResolveReason_UsesMessage(E, v) ==
    IF v.options.reason # <<>> THEN v.options.reason[1]
    ELSE IF v.options.message # <<>> THEN v.options.message[1]
         ELSE GoConstant(E, v)

\* a value's textual representation: its reason, else its Go constant's name
ResolveReason(E, v) ==
    IF v.options.reason # <<>> THEN v.options.reason[1] ELSE GoConstant(E, v)

\* a value's message: the configured one, else the empty string
ResolveMessage(v) ==
    IF v.options.message # <<>> THEN v.options.message[1] ELSE ""

UnknownError(E) == E.name \o ":UNKNOWN_ERROR"

EmitError(E) ==
    [cases |-> [i \in 1..Len(E.values) |->
                    [val |-> E.values[i].number, ret |-> ResolveReason(E, E.values[i])]],
     default |-> UnknownError(E)]

EmitGetCode(E) ==
    [cases |-> [i \in 1..Len(E.values) |->
                    [val |-> E.values[i].number, ret |-> E.values[i].number]],
     default |-> 0]

EmitGetStatus(E) ==
    [cases |-> [i \in 1..Len(E.values) |->
                    [val |-> E.values[i].number, ret |-> ResolveStatus(E, E.values[i])]],
     default |-> DefaultStatus(E)]

\* a value without a message gets no case of its own
EmitGetMessage(E) ==
    LET all == [i \in 1..Len(E.values) |->
                    [val |-> E.values[i].number, ret |-> ResolveMessage(E.values[i])]]
    IN  [cases |-> SelectSeq(all, LAMBDA c : c.ret # ""),
         default |-> ""]

Emit(E) ==
    [Error |-> EmitError(E),
     GetCode |-> EmitGetCode(E),
     GetStatus |-> EmitGetStatus(E),
     GetMessage |-> EmitGetMessage(E)]

\* README.md, the code generated for TestError
TestErrorCode ==
    [Error |->
        [cases |-> << [val |-> 0, ret |-> "TestError_TEST_ERROR_UNSPECIFIED"],
                      [val |-> 1000, ret |-> "INVALID_ARGUMENT"],
                      [val |-> 1001, ret |-> "TestError_TEST_ERROR_INVALID_PATH_TEST2"],
                      [val |-> 1002, ret |-> "UNAUTHORIZED"],
                      [val |-> 1003, ret |-> "FORBIDDEN"] >>,
         default |-> "TestError:UNKNOWN_ERROR"],
     GetCode |->
        [cases |-> << [val |-> 0, ret |-> 0],
                      [val |-> 1000, ret |-> 1000],
                      [val |-> 1001, ret |-> 1001],
                      [val |-> 1002, ret |-> 1002],
                      [val |-> 1003, ret |-> 1003] >>,
         default |-> 0],
     GetStatus |->
        [cases |-> << [val |-> 0, ret |-> 500],
                      [val |-> 1000, ret |-> 400],
                      [val |-> 1001, ret |-> 400],
                      [val |-> 1002, ret |-> 401],
                      [val |-> 1003, ret |-> 403] >>,
         default |-> 500],
     GetMessage |->
        [cases |-> << [val |-> 1000, ret |-> "Invalid field_test1 value"],
                      [val |-> 1001, ret |-> "Invalid path_test2 parameter"],
                      [val |-> 1002, ret |-> "Authentication required"],
                      [val |-> 1003, ret |-> "Permission denied"] >>,
         default |-> ""]]

(***************************************************************************)
(* The generated code at run time                                          *)
(***************************************************************************)
\* switch e { case ...: return ...; default: return ... }
RECURSIVE Match(_, _, _)
Match(cases, default, e) ==
    IF cases = <<>> THEN default
    ELSE IF Head(cases).val = e THEN Head(cases).ret
         ELSE Match(Tail(cases), default, e)

Switch(sw, e) == Match(sw.cases, sw.default, e)

Error(e) == Switch(code.Error, e)

\* GetCode as a plain conversion, return int32(e)
GetCode_Conversion(e) == e

GetCode(e) == Switch(code.GetCode, e)

GetStatus(e) == Switch(code.GetStatus, e)

GetMessage(e) == Switch(code.GetMessage, e)

\* errors: nil, the receiver itself as an error, and errors of other origin
NilErr == [type |-> "nil", value |-> 0]

Receiver(e) == [type |-> enum.name, value |-> e]

OtherErrs == {[type |-> "error", value |-> n] : n \in 1..2}

ErrLists == SeqsUpTo(OtherErrs \cup {NilErr}, MaxErrs)

Messages == {"", "custom message"}

\* errors.Join of the standard library: nil errors are discarded
RECURSIVE ErrorsJoin(_)
ErrorsJoin(errs) ==
    IF errs = <<>> THEN <<>>
    ELSE IF Head(errs) = NilErr THEN ErrorsJoin(Tail(errs))
         ELSE <<Head(errs)>> \o ErrorsJoin(Tail(errs))

\* AllErrs with the receiver appended, append(errs, e)
AllErrs_Appended(e, errs) == errs \o <<Receiver(e)>>

\* allErrs := append([]error{e}, errs...)
AllErrs(e, errs) == <<Receiver(e)>> \o errs

\* the call of the construction function
NewError(status, c, message, cause) ==
    [status |-> status, code |-> c, message |-> message, cause |-> cause]

\* Join without the fallback to Error()
Join_NoFallback(e, errs) ==
    <<NewError(GetStatus(e), GetCode(e), GetMessage(e), ErrorsJoin(AllErrs(e, errs)))>>

\* func (e TestError) Join(errs ...error) error
Join(e, errs) ==
    LET allErrs == AllErrs(e, errs)
        msg == IF GetMessage(e) = "" THEN Error(e) ELSE GetMessage(e)
    IN  <<NewError(GetStatus(e), GetCode(e), msg, ErrorsJoin(allErrs))>>

\* JoinWithMessage that resolves an empty message the way Join does
JoinWithMessage_ResolvesEmpty(e, msg, errs) ==
    LET resolved == IF msg # "" THEN msg
                    ELSE IF GetMessage(e) = "" THEN Error(e) ELSE GetMessage(e)
    IN  <<NewError(GetStatus(e), GetCode(e), resolved, ErrorsJoin(AllErrs(e, errs)))>>

\* func (e TestError) JoinWithMessage(msg string, errs ...error) error
JoinWithMessage(e, msg, errs) ==
    LET allErrs == AllErrs(e, errs)
    IN  <<NewError(GetStatus(e), GetCode(e), msg, ErrorsJoin(allErrs))>>

\* the integers tried as values of the generated type: the declared ones, the
\* numbers of the enumerated declarations and the successor of each
Carrier ==
    LET declared == {enum.values[i].number : i \in 1..Len(enum.values)}
        base == declared \cup Numbers
    IN  base \cup {n + 1 : n \in base}

GenInit ==
    /\ program = "main.go"
    /\ pc = "start"
    /\ showVersion = FALSE
    /\ newErrorsFunc = defaultNewErrorsFunc
    /\ files = <<>>
    /\ idx = 0
    /\ calls = <<>>
    /\ result = [err |-> "none"]
    /\ gpc = "proto"
    /\ enum \in EnumDecls
    /\ code = NoCode
    /\ op = NoOp
    /\ invoked = <<>>

\* the generator emits the methods of the enum
GenerateEnum ==
    /\ gpc = "proto"
    /\ code' = Emit(enum)
    /\ gpc' = "ready"
    /\ UNCHANGED <<enum, op, invoked, runVars>>

Called(name, e, msg, errs, ret) ==
    [name |-> name, e |-> e, msg |-> msg, errs |-> errs, ret |-> ret]

\* e.Error()
CallError ==
    /\ gpc = "ready"
    /\ \E e \in Carrier : op' = Called("Error", e, "", <<>>, Error(e))
    /\ invoked' = <<>>
    /\ gpc' = "called"
    /\ UNCHANGED <<enum, code, runVars>>

\* e.GetCode()
CallGetCode ==
    /\ gpc = "ready"
    /\ \E e \in Carrier : op' = Called("GetCode", e, "", <<>>, GetCode(e))
    /\ invoked' = <<>>
    /\ gpc' = "called"
    /\ UNCHANGED <<enum, code, runVars>>

\* e.GetStatus()
CallGetStatus ==
    /\ gpc = "ready"
    /\ \E e \in Carrier : op' = Called("GetStatus", e, "", <<>>, GetStatus(e))
    /\ invoked' = <<>>
    /\ gpc' = "called"
    /\ UNCHANGED <<enum, code, runVars>>

\* e.GetMessage()
CallGetMessage ==
    /\ gpc = "ready"
    /\ \E e \in Carrier : op' = Called("GetMessage", e, "", <<>>, GetMessage(e))
    /\ invoked' = <<>>
    /\ gpc' = "called"
    /\ UNCHANGED <<enum, code, runVars>>

\* e.Join(errs...)
CallJoin ==
    /\ gpc = "ready"
    /\ \E e \in Carrier, errs \in ErrLists :
          /\ op' = Called("Join", e, "", errs, "error")
          /\ invoked' = Join(e, errs)
    /\ gpc' = "called"
    /\ UNCHANGED <<enum, code, runVars>>

\* e.JoinWithMessage(msg, errs...)
CallJoinWithMessage ==
    /\ gpc = "ready"
    /\ \E e \in Carrier, msg \in Messages, errs \in ErrLists :
          /\ op' = Called("JoinWithMessage", e, msg, errs, "error")
          /\ invoked' = JoinWithMessage(e, msg, errs)
    /\ gpc' = "called"
    /\ UNCHANGED <<enum, code, runVars>>

\* the caller has its result and may call again
Return ==
    /\ gpc = "called"
    /\ gpc' = "ready"
    /\ op' = NoOp
    /\ invoked' = <<>>
    /\ UNCHANGED <<enum, code, runVars>>

GenNext ==
    \/ GenerateEnum
    \/ CallError
    \/ CallGetCode
    \/ CallGetStatus
    \/ CallGetMessage
    \/ CallJoin
    \/ CallJoinWithMessage
    \/ Return

GenSpec == GenInit /\ [][GenNext]_vars

(***************************************************************************)
(* Properties of the generation run                                        *)
(***************************************************************************)
Finished == pc = "done"

Malformed == Len(Split(newErrorsFunc)) # 2

\* the positions of the files marked for generation, in input order
RECURSIVE MarkedUpTo(_)
MarkedUpTo(n) ==
    IF n = 0 THEN <<>>
    ELSE IF files[n].Generate THEN Append(MarkedUpTo(n - 1), n)
         ELSE MarkedUpTo(n - 1)

Marked == MarkedUpTo(Len(files))

CalledFiles == [i \in 1..Len(calls) |-> calls[i].file]

\* C1: whenever new_errors_func does not split on ";" into exactly two
\* components, the run ends in the configuration error, and GenerateFile has
\* not been invoked for any file when it ends.
C1_MalformedAlwaysAborts ==
    (program = "main.go" /\ Finished /\ Malformed) =>
        /\ result = [err |-> invalidFormat]
        /\ calls = <<>>

\* C2: no partial success.  A finished run either returned nil after
\* GenerateFile succeeded for every marked file, or it stopped at one marked
\* file k, the first one at which a step fails: every marked file before k
\* was generated successfully, the value returned is the failure met at k and
\* no file after k was handed to GenerateFile.
C2_NoPartialSuccess ==
    Finished =>
        \/ /\ result = Nil
           /\ CalledFiles = Marked
           /\ \A i \in 1..Len(calls) : calls[i].gErr = Nil
        \/ /\ result # Nil
           /\ \E k \in 1..Len(files) :
                /\ files[k].Generate
                /\ \A i \in 1..Len(calls) : calls[i].file <= k
                /\ \A i \in 1..Len(calls) : calls[i].file < k => calls[i].gErr = Nil
                /\ \A j \in 1..(k - 1) :
                      files[j].Generate => \E i \in 1..Len(calls) : calls[i].file = j
                /\ \/ /\ result = [err |-> invalidFormat]
                      /\ \A i \in 1..Len(calls) : calls[i].file # k
                   \/ /\ calls # <<>>
                      /\ calls[Len(calls)].file = k
                      /\ calls[Len(calls)].gErr = result
                      /\ files[k].fails
                      /\ \A j \in 1..(k - 1) : files[j].Generate => ~files[j].fails

\* a run that stopped at a failing GenerateFile with marked files still ahead
C2_Witness ==
    /\ Finished
    /\ result \notin {Nil, [err |-> invalidFormat]}
    /\ Len(calls) >= 2
    /\ \E j \in 1..Len(files) : j > calls[Len(calls)].file /\ files[j].Generate

\* C3: GenerateFile is only ever invoked for marked files, in input order and
\* at most once each; a run that returns nil has invoked it exactly once for
\* every marked file; a run with no marked file returns nil without output.
C3_MarkedFilesOnceInOrder ==
    /\ \A i \in 1..Len(calls) : files[calls[i].file].Generate
    /\ \A i, j \in 1..Len(calls) : i < j => calls[i].file < calls[j].file
    /\ (Finished /\ result = Nil) => CalledFiles = Marked
    /\ (Finished /\ Marked = <<>>) => (result = Nil /\ calls = <<>>)

\* a successful run over marked files with an unmarked, failing one in between
C3_Witness ==
    /\ Finished
    /\ result = Nil
    /\ Len(calls) >= 2
    /\ \E j \in 1..Len(files) :
          /\ ~files[j].Generate
          /\ files[j].fails
          /\ calls[1].file < j
          /\ j < calls[Len(calls)].file

\* the construction-function reference a descriptor spells: the text before
\* its only separator and the text after it
RefersTo(conf, desc) ==
    \E k \in 1..Len(desc) :
        /\ desc[k] = Sep
        /\ \A j \in 1..Len(desc) : desc[j] = Sep => j = k
        /\ conf.NewErrorsFunc.GoImportPath = Text(SubSeq(desc, 1, k - 1))
        /\ conf.NewErrorsFunc.GoName = Text(SubSeq(desc, k + 1, Len(desc)))

\* C9: every invocation of GenerateFile of a run receives the reference the
\* descriptor spells (locator before the ";", identifier after it), the same
\* for all files; with the option omitted it is
\* github.com/go-sphere/httpx / NewError; the descriptor is not changed while
\* the files are walked.
C9_SameReferenceForEveryFile ==
    /\ [](program = "main.go" => \A i \in 1..Len(calls) :
            /\ RefersTo(calls[i].conf, newErrorsFunc)
            /\ calls[i].conf = calls[1].conf
            /\ newErrorsFunc = defaultNewErrorsFunc =>
                 calls[i].conf.NewErrorsFunc =
                     [GoName |-> "NewError", GoImportPath |-> "github.com/go-sphere/httpx"])
    /\ [][pc = "loop" => newErrorsFunc' = newErrorsFunc]_vars

\* two files generated under a descriptor given as a parameter
C9_Witness ==
    /\ program = "main.go"
    /\ Len(calls) >= 2
    /\ newErrorsFunc \in Descriptors
    /\ calls[2].conf.NewErrorsFunc.GoImportPath = "p"
    /\ calls[2].conf.NewErrorsFunc.GoName = "n"

\* two files generated with the option omitted
C9_WitnessDefault ==
    /\ program = "main.go"
    /\ Len(calls) >= 2
    /\ newErrorsFunc = defaultNewErrorsFunc

(***************************************************************************)
(* Properties of the generated code                                        *)
(***************************************************************************)
Generated == gpc \in {"ready", "called"}

DeclaredNumbers == {enum.values[i].number : i \in 1..Len(enum.values)}

Undeclared == Carrier \ DeclaredNumbers

\* the code generated for TestError is the code README.md prints
ReadmeExampleReproduced ==
    (Generated /\ enum = TestErrorProto) => code = TestErrorCode

\* C4: for every declared value v, GetStatus(v) is v's status override if one
\* is set, otherwise the enum's default_status if that is set, otherwise 500.
C4_StatusResolutionOrder ==
    Generated =>
        \A i \in 1..Len(enum.values) :
            LET v == enum.values[i]
                expected ==
                    IF v.options.status # <<>> THEN v.options.status[1]
                    ELSE IF enum.default_status # <<>> THEN enum.default_status[1]
                         ELSE 500
            IN  /\ GetStatus(v.number) = expected
                /\ (op.name = "GetStatus" /\ op.e = v.number) => op.ret = expected

\* GetStatus returned the override of a value of an enum that sets default_status
C4_Witness ==
    /\ gpc = "called"
    /\ op.name = "GetStatus"
    /\ enum.default_status = <<503>>
    /\ \E i \in 1..Len(enum.values) :
          /\ enum.values[i].number = op.e
          /\ enum.values[i].options.status = <<400>>
    /\ op.ret = 400

\* C5: for every declared value v, Error(v) is v's reason if one is set and
\* "<EnumName>_<ValueSymbol>" otherwise, whatever v's message and status are.
C5_ErrorIsReasonOrQualifiedName ==
    Generated =>
        \A i \in 1..Len(enum.values) :
            LET v == enum.values[i]
                expected ==
                    IF v.options.reason # <<>> THEN v.options.reason[1]
                    ELSE enum.name \o "_" \o v.symbol
            IN  /\ Error(v.number) = expected
                /\ (op.name = "Error" /\ op.e = v.number) => op.ret = expected
                /\ \A st \in {<<>>, <<400>>}, m \in {<<>>, <<"Invalid value">>} :
                      LET other == [enum EXCEPT !.values[i].options.status = st,
                                                !.values[i].options.message = m]
                      IN  Switch(Emit(other).Error, v.number) = Error(v.number)

\* Error returned the qualified name of a value that has a status and a message
\* but no reason
C5_Witness ==
    /\ gpc = "called"
    /\ op.name = "Error"
    /\ enum = TestErrorProto
    /\ op.e = 1001
    /\ op.ret = "TestError_TEST_ERROR_INVALID_PATH_TEST2"

\* C6: for every integer that matches no declared value, GetCode is 0,
\* GetStatus is the enum's default status, GetMessage is "" and Error is
\* "<EnumName>:UNKNOWN_ERROR".
C6_UndeclaredValuesFallBack ==
    Generated =>
        \A e \in Undeclared :
            LET default == IF enum.default_status # <<>> THEN enum.default_status[1]
                           ELSE 500
            IN  /\ GetCode(e) = 0
                /\ GetStatus(e) = default
                /\ GetMessage(e) = ""
                /\ Error(e) = enum.name \o ":UNKNOWN_ERROR"
                /\ (op.name = "GetCode" /\ op.e = e) => op.ret = 0
                /\ (op.name = "GetStatus" /\ op.e = e) => op.ret = default
                /\ (op.name = "GetMessage" /\ op.e = e) => op.ret = ""
                /\ (op.name = "Error" /\ op.e = e) =>
                       op.ret = enum.name \o ":UNKNOWN_ERROR"

\* GetCode returned 0 for the undeclared successor of a declared non-zero value
C6_Witness ==
    /\ gpc = "called"
    /\ op.name = "GetCode"
    /\ op.e \notin DeclaredNumbers
    /\ (op.e - 1) \in DeclaredNumbers
    /\ op.e - 1 # 0
    /\ op.ret = 0

\* C7: Join invokes the construction function exactly once, with
\* GetStatus(e), GetCode(e) and the message GetMessage(e) when that is not
\* empty and Error(e) otherwise; the message is empty only if Error(e) is.
C7_JoinArguments ==
    (gpc = "called" /\ op.name = "Join") =>
        /\ Len(invoked) = 1
        /\ invoked[1].status = GetStatus(op.e)
        /\ invoked[1].code = GetCode(op.e)
        /\ invoked[1].message =
              IF GetMessage(op.e) # "" THEN GetMessage(op.e) ELSE Error(op.e)
        /\ invoked[1].message = "" => Error(op.e) = ""

\* Join fell back to Error(e) for a declared value without a message
C7_Witness ==
    /\ gpc = "called"
    /\ op.name = "Join"
    /\ op.e \in DeclaredNumbers
    /\ op.errs # <<>>
    /\ GetMessage(op.e) = ""
    /\ Len(invoked) = 1
    /\ invoked[1].message = Error(op.e)

\* C8: JoinWithMessage passes the caller's message unchanged, the empty one
\* included, with the status, code and combined cause Join passes for the same
\* value and errors.
C8_JoinWithMessagePassesMessage ==
    (gpc = "called" /\ op.name = "JoinWithMessage") =>
        /\ Len(invoked) = 1
        /\ invoked[1].message = op.msg
        /\ invoked[1].status = Join(op.e, op.errs)[1].status
        /\ invoked[1].code = Join(op.e, op.errs)[1].code
        /\ invoked[1].cause = Join(op.e, op.errs)[1].cause
        /\ invoked[1].status = GetStatus(op.e)
        /\ invoked[1].code = GetCode(op.e)

\* JoinWithMessage passed the empty message for a value that has a message
C8_Witness ==
    /\ gpc = "called"
    /\ op.name = "JoinWithMessage"
    /\ op.msg = ""
    /\ GetMessage(op.e) # ""
    /\ op.errs # <<>>
    /\ Len(invoked) = 1
    /\ invoked[1].message = ""

\* C10: the combined cause of Join and of JoinWithMessage joins the receiver
\* first and then the given errors in their order; without errors it holds
\* the receiver alone.
C10_ReceiverIsPrepended ==
    (gpc = "called" /\ op.name \in {"Join", "JoinWithMessage"}) =>
        LET cause == invoked[1].cause
            given == SelectSeq(op.errs, LAMBDA x : x # NilErr)
        IN  /\ Len(invoked) = 1
            /\ cause # <<>>
            /\ Head(cause) = [type |-> enum.name, value |-> op.e]
            /\ Tail(cause) = given
            /\ op.errs = <<>> => cause = <<[type |-> enum.name, value |-> op.e]>>

\* Join combined the receiver with two different errors
C10_Witness ==
    /\ gpc = "called"
    /\ op.name = "Join"
    /\ Len(op.errs) = 2
    /\ op.errs[1] \in OtherErrs
    /\ op.errs[2] \in OtherErrs
    /\ op.errs[1] # op.errs[2]
    /\ Len(invoked) = 1
    /\ invoked[1].cause = <<[type |-> enum.name, value |-> op.e], op.errs[1], op.errs[2]>>

====
